---- MODULE Spec2Model ----
(***************************************************************************)
(* Verification model of ryvencore-qt:                                     *)
(*   tools.shorten                      (src/ryvencore_qt/src/tools.py)    *)
(*   Base.IDCtr                         (src/.../ryvencore/Base.py)        *)
(*   the signal-emitting wrappers       (src/ryvencore_qt/src/WRAPPERS.py) *)
(*   Session                            (src/ryvencore_qt/src/Session.py)  *)
(* Each subsystem has its own specification over the shared variables.     *)
(***************************************************************************)
EXTENDS Integers, Sequences, FiniteSets, TLC

VARIABLES
    sh_in,      \* tools.shorten: the arguments (s, max_chars, line_break)
    sh_out,     \* tools.shorten: [done, val], the returned string
    ctr,        \* Base.IDCtr: the field ctr of each counter object
    ctr_used,   \* Base.IDCtr: whether a counter has been called since construction
    ctr_op,     \* Base.IDCtr: the last call on a counter and its outcome
    ctr_last,   \* Base.IDCtr: the value count() returned last (<<>> before any)
    GLOBAL_IDs, \* Base: the GLOBAL_ID of every object constructed, in order
    base_op,    \* Base: the last Base.__init__ call and its outcome
    s_pc,       \* Session.__init__: "new", "registered" (line 54 done), "ready"
    init_args,  \* Session.__init__: the arguments of the constructor
    CLASSES,    \* ryvencore.RC.CLASSES, the class registry
    rc_seen,    \* the registry as RC_Session.__init__ finds it when it runs
    threaded,   \* Session.threaded
    scripts,          \* core Session.scripts, a list of scripts
    function_scripts, \* core Session.function_scripts, a list of scripts
    script_info,      \* per created script: its title
    flow_views,       \* Session.flow_views, {Script : FlowView}
    tmp_data,         \* Session.tmp_data
    view_tmp,         \* FlowView._tmp_data of the view of each script
    gui_queue,        \* queued slot invocations posted to the owning thread
    owner_wrote,      \* the views the owning thread has written to tmp_data
    call,             \* per calling thread: the Session call it is executing
    emitted,          \* script_flow_view_created emissions (script, view)
    returned,         \* (script, view) pairs that _build_flow_view returned
    ser_result,       \* what the caller's last call returned, if a serialize
    w_call,           \* the caller's last call, if a wrapper: its event trace
    wcore             \* the wrapped core log, logger, vars manager and flow

vars == <<sh_in, sh_out, ctr, ctr_used, ctr_op, ctr_last, GLOBAL_IDs, base_op,
          s_pc, init_args, CLASSES, rc_seen, threaded,
          scripts, function_scripts, script_info, flow_views, tmp_data,
          view_tmp, gui_queue, owner_wrote, call, emitted, returned,
          ser_result, w_call, wcore>>

shVars  == <<sh_in, sh_out>>
baseVars == <<ctr_last, GLOBAL_IDs, base_op>>
ctrVars == <<ctr, ctr_used, ctr_op, baseVars>>
initVars == <<s_pc, init_args, CLASSES, rc_seen, threaded>>
coreVars == <<scripts, function_scripts, script_info>>
viewVars == <<flow_views, tmp_data, view_tmp, gui_queue, owner_wrote>>
sessVars == <<coreVars, viewVars, call, emitted, returned, ser_result>>

(***************************************************************************)
(* Bounds                                                                  *)
(***************************************************************************)
MaxLen    == 12     \* longest input string of shorten
MaxBudget == 12     \* largest max_chars of shorten
MaxCount  == 4      \* largest counter value reached or set
MaxScripts == 2     \* scripts created in one session
MaxLines  == 2      \* lines written to one log

Alphabet == {"a", "b"}

(***************************************************************************)
(* Python primitives used by tools.shorten                                 *)
(***************************************************************************)

\* round(n / 2) for an integer n: Python 3 rounds halves to the even integer
PyRoundHalf(n) ==
    IF n % 2 = 0
    THEN n \div 2
    ELSE LET f == (n - 1) \div 2
         IN  IF f % 2 = 0 THEN f ELSE f + 1

\* a slice bound i on a sequence of length l: negative bounds count from the
\* end, and the bound is clamped to 0..l
PySliceIndex(i, l) ==
    IF i < 0
    THEN (IF i + l < 0 THEN 0 ELSE i + l)
    ELSE (IF i > l THEN l ELSE i)

\* seq[:stop]
PySliceTo(seq, stop) == SubSeq(seq, 1, PySliceIndex(stop, Len(seq)))

\* seq[start:]
PySliceFrom(seq, start) ==
    SubSeq(seq, PySliceIndex(start, Len(seq)) + 1, Len(seq))

(***************************************************************************)
(* tools.shorten                                                           *)
(***************************************************************************)
Marker == <<" ", ".", " ", ".", " ", ".", " ">>

InsertNoBreak(line_break) == Marker

\* insert = ' . . . ', wrapped in newlines when line_break
Insert(line_break) ==
    IF line_break THEN <<"\n">> \o Marker \o <<"\n">> ELSE Marker

\* left = s[:round((max_chars-insert_length)/2)]
ShortenLeft(s, max_chars, line_break) ==
    PySliceTo(s, PyRoundHalf(max_chars - Len(Insert(line_break))))

\* right = s[round(l-((max_chars-insert_length)/2)):]
ShortenRight(s, max_chars, line_break) ==
    PySliceFrom(s, PyRoundHalf(2 * Len(s) - (max_chars - Len(Insert(line_break)))))

shortenCutsAtBudget(s, max_chars, line_break) ==
    IF Len(s) >= max_chars
    THEN ShortenLeft(s, max_chars, line_break)
             \o Insert(line_break)
             \o ShortenRight(s, max_chars, line_break)
    ELSE s

shorten(s, max_chars, line_break) ==
    IF Len(s) > max_chars
    THEN ShortenLeft(s, max_chars, line_break)
             \o Insert(line_break)
             \o ShortenRight(s, max_chars, line_break)
    ELSE s

Strings == UNION {[1..n -> Alphabet] : n \in 0..MaxLen}

ShortenInit ==
    /\ sh_in \in [s : Strings, max_chars : 0..MaxBudget, line_break : BOOLEAN]
    /\ sh_out = [done |-> FALSE, val |-> <<>>]

ShortenCall ==
    /\ ~sh_out.done
    /\ sh_out' = [done |-> TRUE,
                  val  |-> shorten(sh_in.s, sh_in.max_chars, sh_in.line_break)]
    /\ UNCHANGED sh_in

(***************************************************************************)
(* Base.IDCtr                                                              *)
(***************************************************************************)
Counters == {"global_id_ctr", "id_ctr"}

NoOp == [op |-> "none", c |-> "global_id_ctr", arg |-> 0, before |-> -1,
         first |-> FALSE, ret |-> 0, raised |-> FALSE]

\* IDCtr.__init__
IDCtrInit ==
    /\ ctr = [c \in Counters |-> -1]
    /\ ctr_used = [c \in Counters |-> FALSE]
    /\ ctr_op = NoOp

countPostIncrement(c) ==
    /\ ctr[c] < MaxCount
    /\ ctr' = [ctr EXCEPT ![c] = ctr[c] + 1]
    /\ ctr_used' = [ctr_used EXCEPT ![c] = TRUE]
    /\ ctr_op' = [op |-> "count", c |-> c, arg |-> 0, before |-> ctr[c],
                  first |-> ~ctr_used[c], ret |-> ctr[c], raised |-> FALSE]

\* IDCtr.count: self.ctr += 1; return self.ctr
count(c) ==
    /\ ctr[c] < MaxCount
    /\ ctr' = [ctr EXCEPT ![c] = ctr[c] + 1]
    /\ ctr_used' = [ctr_used EXCEPT ![c] = TRUE]
    /\ ctr_op' = [op |-> "count", c |-> c, arg |-> 0, before |-> ctr[c],
                  first |-> ~ctr_used[c], ret |-> ctr'[c], raised |-> FALSE]

set_countRaisesOnEqual(c, cnt) ==
    /\ ctr_used' = [ctr_used EXCEPT ![c] = TRUE]
    /\ IF cnt <= ctr[c]
       THEN /\ ctr' = ctr
            /\ ctr_op' = [op |-> "set_count", c |-> c, arg |-> cnt,
                          before |-> ctr[c], first |-> ~ctr_used[c],
                          ret |-> 0, raised |-> TRUE]
       ELSE /\ ctr' = [ctr EXCEPT ![c] = cnt]
            /\ ctr_op' = [op |-> "set_count", c |-> c, arg |-> cnt,
                          before |-> ctr[c], first |-> ~ctr_used[c],
                          ret |-> 0, raised |-> FALSE]

\* IDCtr.set_count: raise when cnt < self.ctr, else self.ctr = cnt
set_count(c, cnt) ==
    /\ ctr_used' = [ctr_used EXCEPT ![c] = TRUE]
    /\ IF cnt < ctr[c]
       THEN /\ ctr' = ctr
            /\ ctr_op' = [op |-> "set_count", c |-> c, arg |-> cnt,
                          before |-> ctr[c], first |-> ~ctr_used[c],
                          ret |-> 0, raised |-> TRUE]
       ELSE /\ ctr' = [ctr EXCEPT ![c] = cnt]
            /\ ctr_op' = [op |-> "set_count", c |-> c, arg |-> cnt,
                          before |-> ctr[c], first |-> ~ctr_used[c],
                          ret |-> 0, raised |-> FALSE]

(***************************************************************************)
(* Session.__init__ and the class registry                                 *)
(***************************************************************************)
None == "None"

(***************************************************************************)
(* Base.__init__                                                           *)
(***************************************************************************)
\* the ID attribute of an object: missing, None, or a value
NoID == [attr |-> "absent", val |-> 0]
NoneID == [attr |-> "None", val |-> 0]
SetID(v) == [attr |-> "set", val |-> v]

\* the ID a subclass has given the object before it calls Base.__init__
PreIDs == {NoID, NoneID} \cup {SetID(v) : v \in 0..1}

\* the class attribute id_ctr: None in Base, an IDCtr in a subclass that
\* wants custom IDs
IdCtrs == {None, "id_ctr"}

NoInit == [op |-> "none", id_ctr |-> None, pre |-> NoID, GLOBAL_ID |-> -1,
           ID |-> NoID, before |-> [c \in Counters |-> -1],
           after |-> [c \in Counters |-> -1]]

\* no object constructed and no count() returned yet
BaseNew ==
    /\ ctr_last = [c \in Counters |-> <<>>]
    /\ GLOBAL_IDs = <<>>
    /\ base_op = NoInit

\* a direct call of count(): its return is the latest, and the last call
\* is no longer a Base.__init__
CountReturned(c) ==
    /\ ctr_last' = [ctr_last EXCEPT ![c] = <<ctr_op'.ret>>]
    /\ base_op' = NoInit
    /\ UNCHANGED GLOBAL_IDs

\* a direct call of set_count(): it returns nothing
SetCountReturned ==
    /\ base_op' = NoInit
    /\ UNCHANGED <<ctr_last, GLOBAL_IDs>>

hasattrID(pre_id) == pre_id.attr # "absent"

AssignsIDIgnoringExisting(id_ctr, pre_id) ==
    id_ctr # None

\* self.id_ctr is not None and not (hasattr(self, 'ID') and self.ID is not None)
AssignsID(id_ctr, pre_id) ==
    id_ctr # None /\ ~(hasattrID(pre_id) /\ pre_id.attr # "None")

Base__init__ReadsCounter(id_ctr, pre_id) ==
    LET g      == "global_id_ctr"
        assign == AssignsID(id_ctr, pre_id)
        gid    == ctr[g]
        id     == IF assign THEN ctr[id_ctr] + 1 ELSE 0
    IN  /\ ctr[g] < MaxCount
        /\ assign => ctr[id_ctr] < MaxCount
        /\ ctr' = [c \in Counters |->
                     IF assign /\ c = id_ctr THEN id ELSE ctr[c]]
        /\ ctr_used' = [c \in Counters |->
                     ctr_used[c] \/ (assign /\ c = id_ctr)]
        /\ ctr_op' = ctr_op
        /\ ctr_last' = [c \in Counters |->
                     IF assign /\ c = id_ctr THEN <<id>> ELSE ctr_last[c]]
        /\ GLOBAL_IDs' = Append(GLOBAL_IDs, gid)
        /\ base_op' = [op |-> "init", id_ctr |-> id_ctr, pre |-> pre_id,
                       GLOBAL_ID |-> gid,
                       ID |-> IF assign THEN SetID(id) ELSE pre_id,
                       before |-> ctr, after |-> ctr']

\* Base.__init__: self.GLOBAL_ID = self.global_id_ctr.count(); then, under
\* the condition of line 28, self.ID = self.id_ctr.count()
Base__init__(id_ctr, pre_id) ==
    LET g      == "global_id_ctr"
        assign == AssignsID(id_ctr, pre_id)
        gid    == ctr[g] + 1
        id     == IF assign THEN ctr[id_ctr] + 1 ELSE 0
    IN  /\ ctr[g] < MaxCount
        /\ assign => ctr[id_ctr] < MaxCount
        /\ ctr' = [c \in Counters |->
                     IF c = g THEN gid
                     ELSE IF assign /\ c = id_ctr THEN id ELSE ctr[c]]
        /\ ctr_used' = [c \in Counters |->
                     ctr_used[c] \/ c = g \/ (assign /\ c = id_ctr)]
        /\ ctr_op' = IF assign
                     THEN [op |-> "count", c |-> id_ctr, arg |-> 0,
                           before |-> ctr[id_ctr], first |-> ~ctr_used[id_ctr],
                           ret |-> id, raised |-> FALSE]
                     ELSE [op |-> "count", c |-> g, arg |-> 0,
                           before |-> ctr[g], first |-> ~ctr_used[g],
                           ret |-> gid, raised |-> FALSE]
        /\ ctr_last' = [c \in Counters |->
                     IF c = g THEN <<gid>>
                     ELSE IF assign /\ c = id_ctr THEN <<id>>
                     ELSE ctr_last[c]]
        /\ GLOBAL_IDs' = Append(GLOBAL_IDs, gid)
        /\ base_op' = [op |-> "init", id_ctr |-> id_ctr, pre |-> pre_id,
                       GLOBAL_ID |-> gid,
                       ID |-> IF assign THEN SetID(id) ELSE pre_id,
                       before |-> ctr, after |-> ctr']

RegistryKeys == {"node base", "data conn", "exec conn", "logs manager",
                 "vars manager", "flow", "data conn item", "exec conn item"}

\* the registry before any Session is constructed
EmptyRegistry == [k \in RegistryKeys |-> None]

\* the classes a caller may pass to Session.__init__
ClassArgs == [node_class           : {None, "MyNode"},
              data_conn_class      : {None, "MyDataConnection"},
              data_conn_item_class : {None, "MyDataConnectionItem"},
              exec_conn_class      : {None, "MyExecConnection"},
              exec_conn_item_class : {None, "MyExecConnectionItem"},
              threaded             : BOOLEAN]

DefaultArgs == [node_class |-> None, data_conn_class |-> None,
                data_conn_item_class |-> None, exec_conn_class |-> None,
                exec_conn_item_class |-> None, threaded |-> FALSE]

RegisterDefaultsOnly(reg, a) ==
    [k \in RegistryKeys |->
        CASE k = "node base"      -> "Node"
          [] k = "data conn"      -> "DataConnection"
          [] k = "logs manager"   -> "LogsManager"
          [] k = "vars manager"   -> "VarsManager"
          [] k = "flow"           -> "Flow"
          [] k = "exec conn"      -> reg[k]
          [] k = "data conn item" -> "DataConnectionItem"
          [] k = "exec conn item" -> "ExecConnectionItem"]

\* the registry after lines 42-54 of Session.__init__
Register(reg, a) ==
    [k \in RegistryKeys |->
        CASE k = "node base" ->
                 IF a.node_class = None THEN "Node" ELSE a.node_class
          [] k = "data conn" ->
                 IF a.data_conn_class = None THEN "DataConnection"
                                             ELSE a.data_conn_class
          [] k = "logs manager" -> "LogsManager"
          [] k = "vars manager" -> "VarsManager"
          [] k = "flow"         -> "Flow"
          [] k = "exec conn" ->
                 IF a.exec_conn_class # None THEN a.exec_conn_class ELSE reg[k]
          [] k = "data conn item" ->
                 IF a.data_conn_item_class = None THEN "DataConnectionItem"
                                                  ELSE a.data_conn_item_class
          [] k = "exec conn item" ->
                 IF a.exec_conn_item_class = None THEN "ExecConnectionItem"
                                                  ELSE a.exec_conn_item_class]

SessionNew ==
    /\ s_pc = "new"
    /\ init_args = DefaultArgs
    /\ CLASSES = EmptyRegistry
    /\ rc_seen = EmptyRegistry
    /\ threaded = FALSE

\* Session.__init__, lines 39-54: the registry writes
SessionInitRegister(a) ==
    /\ s_pc = "new"
    /\ s_pc' = "registered"
    /\ init_args' = a
    /\ CLASSES' = Register(CLASSES, a)
    /\ UNCHANGED <<rc_seen, threaded>>

\* Session.__init__, lines 56-80: RC_Session.__init__, then the fields
SessionInitCore ==
    /\ s_pc = "registered"
    /\ s_pc' = "ready"
    /\ rc_seen' = CLASSES
    /\ threaded' = init_args.threaded
    /\ UNCHANGED <<init_args, CLASSES>>

(***************************************************************************)
(* Event traces of the signal-emitting wrappers                            *)
(***************************************************************************)
Ev(kind, what) == [ev |-> kind, what |-> what]

\* a call of the wrapped core method: it returns, or it raises
CoreCall(method, ok) ==
    IF ok THEN <<Ev("call", method), Ev("return", method)>>
          ELSE <<Ev("call", method), Ev("raise", method)>>

Emit(signal) == <<Ev("emit", signal)>>

Raised(trace) == Len(trace) > 0 /\ trace[Len(trace)].ev = "raise"

\* statement sequencing: an exception skips the statements that follow
Then(trace, rest) == IF Raised(trace) THEN trace ELSE trace \o rest

\* args: the arguments of the call; core_ret: what the core method returned;
\* ret: what the wrapper returned; sig_args: what the emitted signal carried
\* (each <<>> when there is none)
NoWCall == [method |-> "none", trace |-> <<>>, raised |-> FALSE,
            args |-> <<>>, core_ret |-> <<>>, ret |-> <<>>, sig_args |-> <<>>]

WCall(method, trace) ==
    [NoWCall EXCEPT !.method = method, !.trace = trace, !.raised = Raised(trace)]

(***************************************************************************)
(* Session: scripts, flow views and the hand-off to the owning thread      *)
(***************************************************************************)
Callers == {"t1"}
Titles  == {"A", "B"}

\* Script.init_config: None, a config without 'flow view', a config with it
Configs == {None, "old cfg", "cfg"}

NoneView == [script |-> 0]
NoneData == <<>>
NoCfg    == [name |-> "", flow |-> 0]
NoParams == [script |-> 0, flow_view_config |-> None]

\* Session._build_flow_view, lines 125-132
FlowViewConfig(script_config) ==
    IF script_config # None
    THEN IF script_config = "old cfg" THEN "script_config['flow']"
                                      ELSE "script_config['flow view']"
    ELSE None

\* FlowView(*params): the view built for params.script
FlowView(params) == [script |-> params.script]

\* FlowView.generate_config_data(cfg): the config completed by this view
ViewData(view, cfg) == <<view, cfg>>

IdleCall == [pc |-> "idle", op |-> "none", script |-> 0, params |-> NoParams,
             flow_view |-> NoneView, data_fs |-> <<>>, data_s |-> <<>>,
             part |-> "none", i |-> 0, out_fs |-> <<>>, out_s |-> <<>>,
             raised |-> FALSE]

NoResult == [done |-> FALSE, data_fs |-> <<>>, data_s |-> <<>>,
             val |-> [k \in {"function scripts", "scripts"} |-> <<>>]]

Created == 1..Len(script_info)

\* Session.__init__ has returned; no script yet
SessionReady ==
    /\ s_pc = "ready"
    /\ init_args \in {a \in ClassArgs : \A f \in DOMAIN a \ {"threaded"} : a[f] = None}
    /\ CLASSES = Register(EmptyRegistry, init_args)
    /\ rc_seen = CLASSES
    /\ threaded = init_args.threaded
    /\ scripts = <<>>
    /\ function_scripts = <<>>
    /\ script_info = <<>>
    /\ flow_views = <<>>
    /\ tmp_data = NoneView
    /\ view_tmp = [s \in 1..MaxScripts |-> NoneData]
    /\ gui_queue = <<>>
    /\ owner_wrote = {}
    /\ call = [t \in Callers |-> IdleCall]
    /\ emitted = {}
    /\ returned = {}
    /\ ser_result = NoResult
    /\ w_call = NoWCall

\* two threads that call the same Session
Threads == {"t1", "t2"}

\* Session.__init__ has returned; no script yet; two threads may call
SessionReadyTwoThreads ==
    /\ s_pc = "ready"
    /\ init_args \in {a \in ClassArgs : \A f \in DOMAIN a \ {"threaded"} : a[f] = None}
    /\ CLASSES = Register(EmptyRegistry, init_args)
    /\ rc_seen = CLASSES
    /\ threaded = init_args.threaded
    /\ scripts = <<>>
    /\ function_scripts = <<>>
    /\ script_info = <<>>
    /\ flow_views = <<>>
    /\ tmp_data = NoneView
    /\ view_tmp = [s \in 1..MaxScripts |-> NoneData]
    /\ gui_queue = <<>>
    /\ owner_wrote = {}
    /\ call = [t \in Threads |-> IdleCall]
    /\ emitted = {}
    /\ returned = {}
    /\ ser_result = NoResult
    /\ w_call = NoWCall

\* no Session exists
SessionAbsent ==
    /\ scripts = <<>>
    /\ function_scripts = <<>>
    /\ script_info = <<>>
    /\ flow_views = <<>>
    /\ tmp_data = NoneView
    /\ view_tmp = [s \in 1..MaxScripts |-> NoneData]
    /\ gui_queue = <<>>
    /\ owner_wrote = {}
    /\ call = [t \in Callers |-> IdleCall]
    /\ emitted = {}
    /\ returned = {}
    /\ ser_result = NoResult
    /\ w_call = NoWCall

\* SessionThreadingBridge.init_flow_view(session, params)
InitFlowViewSlot(params) ==
    /\ tmp_data' = FlowView(params)
    /\ owner_wrote' = owner_wrote \cup {FlowView(params)}

\* FlowView.generate_config_data(cfg) of the view `view`
GenerateConfigDataSlot(view, cfg, vt) ==
    view_tmp' = [vt EXCEPT ![view.script] = ViewData(view, cfg)]

\* Session.create_script / create_func_script, lines 91/103, and
\* _build_flow_view, lines 125-141
CreateScript(t, kind, title, config) ==
    /\ s_pc = "ready"
    /\ call[t].pc = "idle"
    /\ Len(script_info) < MaxScripts
    /\ LET s == Len(script_info) + 1
       IN  /\ script_info' = Append(script_info, [title |-> title])
           /\ IF kind = "create_script"
              THEN scripts' = Append(scripts, s) /\ UNCHANGED function_scripts
              ELSE function_scripts' = Append(function_scripts, s) /\ UNCHANGED scripts
           /\ call' = [call EXCEPT ![t] =
                  [IdleCall EXCEPT !.pc = "reset", !.op = kind, !.script = s,
                      !.params = [script |-> s,
                                  flow_view_config |-> FlowViewConfig(config)]]]
    /\ ser_result' = NoResult
    /\ w_call' = NoWCall
    /\ UNCHANGED <<viewVars, emitted, returned>>

BuildNoReset(t) ==
    /\ call[t].pc = "reset"
    /\ call' = [call EXCEPT ![t].pc = "emit"]
    /\ UNCHANGED <<coreVars, viewVars, emitted, returned, ser_result, w_call>>

\* _build_flow_view, line 144: self.tmp_data = None
BuildReset(t) ==
    /\ call[t].pc = "reset"
    /\ tmp_data' = NoneView
    /\ call' = [call EXCEPT ![t].pc = "emit"]
    /\ UNCHANGED <<coreVars, flow_views, view_tmp, gui_queue, owner_wrote,
                   emitted, returned, ser_result, w_call>>

\* _build_flow_view, line 145: build_flow_view_request.emit; the slot runs
\* at once when it lives in the emitting thread, else the call is queued
BuildEmit(t) ==
    /\ call[t].pc = "emit"
    /\ IF threaded
       THEN /\ gui_queue' = Append(gui_queue,
                   [slot |-> "init_flow_view", params |-> call[t].params,
                    view |-> NoneView, cfg |-> NoCfg])
            /\ UNCHANGED <<tmp_data, owner_wrote>>
       ELSE /\ InitFlowViewSlot(call[t].params)
            /\ UNCHANGED gui_queue
    /\ call' = [call EXCEPT ![t].pc = "poll"]
    /\ UNCHANGED <<coreVars, flow_views, view_tmp, emitted, returned,
                   ser_result, w_call>>

BuildPollNoWait(t) ==
    /\ call[t].pc = "poll"
    /\ call' = [call EXCEPT ![t].pc = "read"]
    /\ UNCHANGED <<coreVars, viewVars, emitted, returned, ser_result, w_call>>

\* _build_flow_view, lines 146-147: the loop is left once tmp_data is set
BuildPoll(t) ==
    /\ call[t].pc = "poll"
    /\ tmp_data # NoneView
    /\ call' = [call EXCEPT ![t].pc = "read"]
    /\ UNCHANGED <<coreVars, viewVars, emitted, returned, ser_result, w_call>>

\* _build_flow_view, line 149: flow_view = self.tmp_data
BuildRead(t) ==
    /\ call[t].pc = "read"
    /\ call' = [call EXCEPT ![t].pc = "store", ![t].flow_view = tmp_data]
    /\ UNCHANGED <<coreVars, viewVars, emitted, returned, ser_result, w_call>>

BuildStoreNothing(t) ==
    /\ call[t].pc = "store"
    /\ LET s == call[t].script
           v == call[t].flow_view
       IN  /\ emitted' = emitted \cup {[script |-> s, view |-> v]}
           /\ returned' = returned \cup {[script |-> s, view |-> v]}
    /\ call' = [call EXCEPT ![t] = IdleCall]
    /\ UNCHANGED <<coreVars, viewVars, ser_result, w_call>>

\* _build_flow_view, lines 151-154, and the return of create_script
BuildStore(t) ==
    /\ call[t].pc = "store"
    /\ LET s == call[t].script
           v == call[t].flow_view
       IN  /\ flow_views' = [x \in DOMAIN flow_views \cup {s} |->
                                IF x = s THEN v ELSE flow_views[x]]
           /\ emitted' = emitted \cup {[script |-> s, view |-> v]}
           /\ returned' = returned \cup {[script |-> s, view |-> v]}
    /\ call' = [call EXCEPT ![t] = IdleCall]
    /\ UNCHANGED <<coreVars, tmp_data, view_tmp, gui_queue, owner_wrote,
                   ser_result, w_call>>

\* the owning thread runs the queued SessionThreadingBridge.init_flow_view
OwnerInitFlowView ==
    /\ gui_queue # <<>>
    /\ Head(gui_queue).slot = "init_flow_view"
    /\ InitFlowViewSlot(Head(gui_queue).params)
    /\ gui_queue' = Tail(gui_queue)
    /\ UNCHANGED <<coreVars, flow_views, view_tmp, call, emitted, returned,
                   ser_result, w_call>>

(***************************************************************************)
(* Session.rename_script, Session.delete_script                            *)
(***************************************************************************)
InSession(s) ==
    \/ \E k \in 1..Len(scripts) : scripts[k] = s
    \/ \E k \in 1..Len(function_scripts) : function_scripts[k] = s

Without(list, s) == SelectSeq(list, LAMBDA x : x # s)

\* Session.rename_script; ok: the core call returns (else it raises)
rename_script(t, s, title, ok) ==
    /\ s_pc = "ready"
    /\ call[t].pc = "idle"
    /\ s \in Created
    /\ script_info' = IF ok THEN [script_info EXCEPT ![s].title = title]
                            ELSE script_info
    /\ w_call' = WCall("Session.rename_script",
                       Then(CoreCall("RC_Session.rename_script", ok),
                            Emit("script_renamed")))
    /\ ser_result' = NoResult
    /\ UNCHANGED <<scripts, function_scripts, viewVars, call, emitted, returned>>

\* Session.delete_script; the core call raises for a script not in the session
delete_script(t, s, ok) ==
    /\ s_pc = "ready"
    /\ call[t].pc = "idle"
    /\ s \in Created
    /\ ok => InSession(s)
    /\ scripts' = IF ok THEN Without(scripts, s) ELSE scripts
    /\ function_scripts' = IF ok THEN Without(function_scripts, s)
                                 ELSE function_scripts
    /\ w_call' = WCall("Session.delete_script",
                       Then(CoreCall("RC_Session.delete_script", ok),
                            Emit("script_deleted")))
    /\ ser_result' = NoResult
    /\ UNCHANGED <<script_info, viewVars, call, emitted, returned>>

(***************************************************************************)
(* Session.serialize                                                       *)
(***************************************************************************)
\* the config the core serialization produces for script s
ScriptCfg(s) == [name |-> script_info[s].title, flow |-> s]

CfgList(list) == [k \in 1..Len(list) |-> ScriptCfg(list[k])]

\* core Session.all_scripts()
all_scripts == function_scripts \o scripts

get_script_ignoring_title(title) ==
    IF all_scripts # <<>> THEN all_scripts[1] ELSE 0

\* Session._get_script_from_title: the first script with that title, or None (0)
get_script_from_title(title) ==
    IF \E k \in 1..Len(all_scripts) : script_info[all_scripts[k]].title = title
    THEN all_scripts[CHOOSE k \in 1..Len(all_scripts) :
             /\ script_info[all_scripts[k]].title = title
             /\ \A j \in 1..(k - 1) : script_info[all_scripts[j]].title # title]
    ELSE 0

\* Session.serialize, line 159: data = RC_Session.serialize(self)
SerializeBegin(t) ==
    /\ s_pc = "ready"
    /\ call[t].pc = "idle"
    /\ call' = [call EXCEPT ![t] =
           [IdleCall EXCEPT !.pc = "ser_req", !.op = "serialize",
               !.data_fs = CfgList(function_scripts), !.data_s = CfgList(scripts),
               !.part = "function scripts", !.i = 1]]
    /\ ser_result' = NoResult
    /\ w_call' = NoWCall
    /\ UNCHANGED <<coreVars, viewVars, emitted, returned>>

CurrentList(c) == IF c.part = "function scripts" THEN c.data_fs ELSE c.data_s

\* Session.serialize, lines 164-171 / 181-188: look up the view, reset its
\* _tmp_data, emit complete_flow_view_config to its generate_config_data
SerializeRequest(t) ==
    /\ call[t].pc = "ser_req"
    /\ call[t].i <= Len(CurrentList(call[t]))
    /\ LET cfg    == CurrentList(call[t])[call[t].i]
           script == get_script_from_title(cfg.name)
       IN  IF script \notin DOMAIN flow_views \/ flow_views[script] = NoneView
           THEN \* KeyError / AttributeError: serialize raises
                /\ call' = [call EXCEPT ![t] = [IdleCall EXCEPT !.raised = TRUE]]
                /\ UNCHANGED <<view_tmp, gui_queue>>
           ELSE LET view  == flow_views[script]
                    reset == [view_tmp EXCEPT ![view.script] = NoneData]
                IN  /\ IF threaded
                       THEN /\ view_tmp' = reset
                            /\ gui_queue' = Append(gui_queue,
                                   [slot |-> "generate_config_data",
                                    params |-> NoParams, view |-> view, cfg |-> cfg])
                       ELSE /\ GenerateConfigDataSlot(view, cfg, reset)
                            /\ UNCHANGED gui_queue
                    /\ call' = [call EXCEPT ![t].pc = "ser_wait",
                                            ![t].flow_view = view]
    /\ UNCHANGED <<coreVars, flow_views, tmp_data, owner_wrote, emitted,
                   returned, ser_result, w_call>>

SerializeCollectNoWait(t) ==
    /\ call[t].pc = "ser_wait"
    /\ LET d == view_tmp[call[t].flow_view.script]
       IN  call' = [call EXCEPT
               ![t].pc = "ser_req",
               ![t].i = call[t].i + 1,
               ![t].out_fs = IF call[t].part = "function scripts"
                             THEN Append(call[t].out_fs, d) ELSE call[t].out_fs,
               ![t].out_s = IF call[t].part = "scripts"
                            THEN Append(call[t].out_s, d) ELSE call[t].out_s]
    /\ UNCHANGED <<coreVars, viewVars, emitted, returned, ser_result, w_call>>

\* Session.serialize, lines 172-176 / 189-193: wait for view._tmp_data,
\* disconnect, append it
SerializeCollect(t) ==
    /\ call[t].pc = "ser_wait"
    /\ view_tmp[call[t].flow_view.script] # NoneData
    /\ LET d == view_tmp[call[t].flow_view.script]
       IN  call' = [call EXCEPT
               ![t].pc = "ser_req",
               ![t].i = call[t].i + 1,
               ![t].out_fs = IF call[t].part = "function scripts"
                             THEN Append(call[t].out_fs, d) ELSE call[t].out_fs,
               ![t].out_s = IF call[t].part = "scripts"
                            THEN Append(call[t].out_s, d) ELSE call[t].out_s]
    /\ UNCHANGED <<coreVars, viewVars, emitted, returned, ser_result, w_call>>

\* Session.serialize, line 180: the first loop is over, the second starts
SerializeScripts(t) ==
    /\ call[t].pc = "ser_req"
    /\ call[t].part = "function scripts"
    /\ call[t].i > Len(call[t].data_fs)
    /\ call' = [call EXCEPT ![t].part = "scripts", ![t].i = 1]
    /\ UNCHANGED <<coreVars, viewVars, emitted, returned, ser_result, w_call>>

\* Session.serialize, lines 195-200
SerializeReturn(t) ==
    /\ call[t].pc = "ser_req"
    /\ call[t].part = "scripts"
    /\ call[t].i > Len(call[t].data_s)
    /\ ser_result' = [done |-> TRUE,
                      data_fs |-> call[t].data_fs, data_s |-> call[t].data_s,
                      val |-> [k \in {"function scripts", "scripts"} |->
                                  IF k = "function scripts" THEN call[t].out_fs
                                                            ELSE call[t].out_s]]
    /\ call' = [call EXCEPT ![t] = IdleCall]
    /\ UNCHANGED <<coreVars, viewVars, emitted, returned, w_call>>

\* the owning thread runs the queued FlowView.generate_config_data
OwnerGenerateConfigData ==
    /\ gui_queue # <<>>
    /\ Head(gui_queue).slot = "generate_config_data"
    /\ GenerateConfigDataSlot(Head(gui_queue).view, Head(gui_queue).cfg, view_tmp)
    /\ gui_queue' = Tail(gui_queue)
    /\ UNCHANGED <<coreVars, flow_views, tmp_data, owner_wrote, call, emitted,
                   returned, ser_result, w_call>>

(***************************************************************************)
(* WRAPPERS.py: Log, Logger, VarsManager, Flow, DataConnection             *)
(* wcore is the state of the wrapped core objects; a core call that raises *)
(* leaves it unchanged.  ok: the core call returns (else it raises).       *)
(***************************************************************************)
Messages == {"m"}
LogTitles == {"Global"}
VarNames == {"x"}
VarVals  == {0, 1}
Nodes    == {"n1"}
Connections == {"c1"}
Modes    == {"data", "exec"}

WCoreInit ==
    wcore = [enabled |-> TRUE, current_lines |-> <<>>, logs |-> {},
             variables |-> <<>>, nodes |-> {}, connections |-> {},
             mode |-> "data"]

\* one wrapper call: its event trace and the core state it leaves
Wrap(method, trace, core) ==
    /\ w_call' = WCall(method, trace)
    /\ wcore' = IF Raised(trace) THEN wcore ELSE core
    /\ UNCHANGED <<sessVars, shVars, ctrVars, initVars>>

\* one wrapper call that returns a value and emits a signal with arguments
WrapResult(method, trace, core, args, core_ret, ret, sig_args) ==
    /\ w_call' = [WCall(method, trace) EXCEPT
                      !.args = args, !.core_ret = core_ret,
                      !.ret = ret, !.sig_args = sig_args]
    /\ wcore' = IF Raised(trace) THEN wcore ELSE core
    /\ UNCHANGED <<sessVars, shVars, ctrVars, initVars>>

\* Log.write
Log_write(msg, ok) ==
    /\ Len(wcore.current_lines) < MaxLines
    /\ Wrap("Log.write",
            Then(CoreCall("RC_Log.write", ok), Emit("wrote")),
            [wcore EXCEPT !.current_lines = Append(@, msg)])

\* Log.clear
Log_clear(ok) ==
    Wrap("Log.clear",
         Then(CoreCall("RC_Log.clear", ok), Emit("cleared")),
         [wcore EXCEPT !.current_lines = <<>>])

\* Log.disable
Log_disable(ok) ==
    Wrap("Log.disable",
         Then(CoreCall("RC_Log.disable", ok), Emit("disabled")),
         [wcore EXCEPT !.enabled = FALSE])

\* Log.enable
Log_enable(ok) ==
    Wrap("Log.enable",
         Then(CoreCall("RC_Log.enable", ok), Emit("enabled")),
         [wcore EXCEPT !.enabled = TRUE])

\* Logger.new_log
Logger_new_log(title, ok) ==
    Wrap("Logger.new_log",
         Then(CoreCall("RC_Logger.new_log", ok), Emit("new_log_created")),
         [wcore EXCEPT !.logs = @ \cup {title}])

\* variables with name set to val
WithVar(variables, name, val) ==
    [n \in DOMAIN variables \cup {name} |-> IF n = name THEN val ELSE variables[n]]

\* VarsManager.create_new_var
VarsManager_create_new_var(name, val, ok) ==
    Wrap("VarsManager.create_new_var",
         Then(CoreCall("RC_VarsManager.create_new_var", ok), Emit("new_var_created")),
         [wcore EXCEPT !.variables = WithVar(@, name, val)])

VarsManager_delete_variableEmitsAnyway(name, ok) ==
    /\ ok => name \in DOMAIN wcore.variables
    /\ Wrap("VarsManager.delete_variable",
            CoreCall("RC_VarsManager.delete_variable", ok) \o Emit("var_deleted"),
            [wcore EXCEPT !.variables = [n \in DOMAIN @ \ {name} |-> @[n]]])

\* VarsManager.delete_variable; the core raises for a variable it does not hold
VarsManager_delete_variable(name, ok) ==
    /\ ok => name \in DOMAIN wcore.variables
    /\ Wrap("VarsManager.delete_variable",
            Then(CoreCall("RC_VarsManager.delete_variable", ok), Emit("var_deleted")),
            [wcore EXCEPT !.variables = [n \in DOMAIN @ \ {name} |-> @[n]]])

VarsManager_set_varEmitsAlways(name, val, ok) ==
    LET b    == name \in DOMAIN wcore.variables
        core == IF b THEN [wcore EXCEPT !.variables = WithVar(@, name, val)]
                     ELSE wcore
    IN  WrapResult("VarsManager.set_var",
                   Then(CoreCall("RC_VarsManager.set_var", ok),
                        Emit("var_val_changed")),
                   core,
                   <<name, val>>,
                   IF ok THEN <<b>> ELSE <<>>,
                   IF ok THEN <<b>> ELSE <<>>,
                   IF ok THEN <<name, val>> ELSE <<>>)

\* VarsManager.set_var: b is the core's result, true when the variable
\* exists; the signal carries the variable of that name and its val
VarsManager_set_var(name, val, ok) ==
    LET b    == name \in DOMAIN wcore.variables
        core == IF b THEN [wcore EXCEPT !.variables = WithVar(@, name, val)]
                     ELSE wcore
    IN  WrapResult("VarsManager.set_var",
                   Then(CoreCall("RC_VarsManager.set_var", ok),
                        IF b THEN Emit("var_val_changed") ELSE <<>>),
                   core,
                   <<name, val>>,
                   IF ok THEN <<b>> ELSE <<>>,
                   IF ok THEN <<b>> ELSE <<>>,
                   IF ok /\ b THEN <<name, core.variables[name]>> ELSE <<>>)

Flow_add_nodeEmitsFirst(node, ok) ==
    Wrap("Flow.add_node",
         Emit("node_added") \o CoreCall("RC_Flow.add_node", ok),
         [wcore EXCEPT !.nodes = @ \cup {node}])

\* Flow.add_node
Flow_add_node(node, ok) ==
    Wrap("Flow.add_node",
         Then(CoreCall("RC_Flow.add_node", ok), Emit("node_added")),
         [wcore EXCEPT !.nodes = @ \cup {node}])

\* Flow.remove_node; the core raises for a node that is not in the flow
Flow_remove_node(node, ok) ==
    /\ ok => node \in wcore.nodes
    /\ Wrap("Flow.remove_node",
            Then(CoreCall("RC_Flow.remove_node", ok), Emit("node_removed")),
            [wcore EXCEPT !.nodes = @ \ {node}])

\* Flow.add_connection
Flow_add_connection(c, ok) ==
    Wrap("Flow.add_connection",
         Then(CoreCall("RC_Flow.add_connection", ok), Emit("connection_added")),
         [wcore EXCEPT !.connections = @ \cup {c}])

\* Flow.remove_connection; the core raises for a connection not in the flow
Flow_remove_connection(c, ok) ==
    /\ ok => c \in wcore.connections
    /\ Wrap("Flow.remove_connection",
            Then(CoreCall("RC_Flow.remove_connection", ok), Emit("connection_removed")),
            [wcore EXCEPT !.connections = @ \ {c}])

Flow_check_connection_validityAlwaysEmits(valid, emit, ok) ==
    WrapResult("Flow.check_connection_validity",
               Then(CoreCall("RC_Flow.check_connection_validity", ok),
                    Emit("connection_request_valid")),
               wcore,
               <<emit>>,
               IF ok THEN <<valid>> ELSE <<>>,
               IF ok THEN <<valid>> ELSE <<>>,
               IF ok THEN <<valid>> ELSE <<>>)

\* Flow.check_connection_validity: valid is the core's result
Flow_check_connection_validity(valid, emit, ok) ==
    WrapResult("Flow.check_connection_validity",
               Then(CoreCall("RC_Flow.check_connection_validity", ok),
                    IF emit THEN Emit("connection_request_valid") ELSE <<>>),
               wcore,
               <<emit>>,
               IF ok THEN <<valid>> ELSE <<>>,
               IF ok THEN <<valid>> ELSE <<>>,
               IF ok /\ emit THEN <<valid>> ELSE <<>>)

\* Flow.create_nodes_from_config
Flow_create_nodes_from_config(nodes, ok) ==
    Wrap("Flow.create_nodes_from_config",
         Then(CoreCall("RC_Flow.create_nodes_from_config", ok),
              Emit("nodes_created_from_config")),
         [wcore EXCEPT !.nodes = @ \cup nodes])

\* Flow.connect_nodes_from_config
Flow_connect_nodes_from_config(conns, ok) ==
    Wrap("Flow.connect_nodes_from_config",
         Then(CoreCall("RC_Flow.connect_nodes_from_config", ok),
              Emit("connections_created_from_config")),
         [wcore EXCEPT !.connections = @ \cup conns])

\* Flow.set_algorithm_mode: the signal carries self.algorithm_mode()
Flow_set_algorithm_mode(mode, ok) ==
    Wrap("Flow.set_algorithm_mode",
         Then(CoreCall("RC_Flow.set_algorithm_mode", ok),
              Then(CoreCall("RC_Flow.algorithm_mode", TRUE),
                   Emit("algorithm_mode_changed"))),
         [wcore EXCEPT !.mode = mode])

\* DataConnection.activate: emits activated, then calls the core
DataConnection_activate(c, ok) ==
    /\ c \in wcore.connections
    /\ Wrap("DataConnection.activate",
            Then(Emit("activated"), CoreCall("RC_DataConnection.activate", ok)),
            wcore)

(***************************************************************************)
(* Properties of tools.shorten (checked under SpecShorten)                 *)
(***************************************************************************)
ShortenCut == sh_out.done /\ Len(sh_in.s) > sh_in.max_chars

\* C1: for a string longer than max_chars, the length of the string that
\* shorten returns never exceeds max_chars.
C1_LengthWithinBudget ==
    ShortenCut => Len(sh_out.val) <= sh_in.max_chars

FixedMarker(line_break) ==
    IF line_break
    THEN <<"\n", " ", ".", " ", ".", " ", ".", " ", "\n">>
    ELSE <<" ", ".", " ", ".", " ", ".", " ">>

\* C2: for a string longer than max_chars, shorten returns a prefix of s,
\* then the fixed marker ' . . . ' (between two newlines when line_break),
\* then a suffix of s, and the prefix and the suffix do not overlap in s.
C2_PrefixMarkerSuffix ==
    ShortenCut =>
        \E i \in 0..Len(sh_in.s), j \in 0..Len(sh_in.s) :
            /\ i <= j
            /\ sh_out.val = SubSeq(sh_in.s, 1, i)
                                \o FixedMarker(sh_in.line_break)
                                \o SubSeq(sh_in.s, j + 1, Len(sh_in.s))

\* a cut with a line break that keeps a non-empty prefix and suffix
C2_Witness ==
    /\ ShortenCut
    /\ sh_in.line_break
    /\ sh_out.val[1] = sh_in.s[1]
    /\ sh_out.val[Len(sh_out.val)] = sh_in.s[Len(sh_in.s)]
    /\ Len(sh_out.val) >= 11

\* C12: for a string no longer than max_chars, shorten returns the string
\* unchanged, with and without line_break.
C12_ShortStringUnchanged ==
    (sh_out.done /\ Len(sh_in.s) <= sh_in.max_chars) => sh_out.val = sh_in.s

\* a non-empty string that exactly fills its budget, with line_break
C12_Witness ==
    /\ sh_out.done
    /\ sh_in.line_break
    /\ Len(sh_in.s) = sh_in.max_chars
    /\ Len(sh_in.s) >= 10
    /\ sh_out.val = sh_in.s

(***************************************************************************)
(* Properties of Base.IDCtr (checked under SpecIDCtr)                      *)
(***************************************************************************)

\* C7: set_count(cnt) with cnt below the counter raises and leaves the
\* counter unchanged; otherwise it sets the counter to cnt and does not raise.
C7_SetCount ==
    ctr_op.op = "set_count" =>
        IF ctr_op.arg < ctr_op.before
        THEN ctr_op.raised /\ ctr[ctr_op.c] = ctr_op.before
        ELSE ~ctr_op.raised /\ ctr[ctr_op.c] = ctr_op.arg

\* a refused decrement of a counter that has counted
C7_Witness ==
    /\ ctr_op.op = "set_count"
    /\ ctr_op.raised
    /\ ctr_op.before >= 1
    /\ ctr_op.arg >= 0

\* C8: count() increases the counter by exactly one and returns the new
\* value; the first call on a freshly constructed counter returns 0.
C8_Count ==
    ctr_op.op = "count" =>
        /\ ctr[ctr_op.c] = ctr_op.before + 1
        /\ ctr_op.ret = ctr[ctr_op.c]
        /\ ctr_op.first => ctr_op.ret = 0

\* the first call on a fresh counter is a count()
C8_Witness ==
    ctr_op.op = "count" /\ ctr_op.first /\ ctr_op.ret = 0

(***************************************************************************)
(* Properties of Session.__init__ (checked under SpecSessionInit)          *)
(***************************************************************************)
Given(arg, default) == IF arg = None THEN default ELSE arg

\* C10: when RC_Session.__init__ runs, the registry already holds the node
\* base, data conn, data/exec conn item classes (the caller's class when one
\* is given, the toolkit default otherwise), the toolkit's logs manager,
\* vars manager and flow classes, and the caller's exec conn when given.
C10_RegistryBeforeCoreInit ==
    s_pc = "ready" =>
        /\ rc_seen["node base"] = Given(init_args.node_class, "Node")
        /\ rc_seen["data conn"] = Given(init_args.data_conn_class, "DataConnection")
        /\ rc_seen["data conn item"] =
               Given(init_args.data_conn_item_class, "DataConnectionItem")
        /\ rc_seen["exec conn item"] =
               Given(init_args.exec_conn_item_class, "ExecConnectionItem")
        /\ rc_seen["logs manager"] = "LogsManager"
        /\ rc_seen["vars manager"] = "VarsManager"
        /\ rc_seen["flow"] = "Flow"
        /\ init_args.exec_conn_class # None =>
               rc_seen["exec conn"] = init_args.exec_conn_class

\* the core engine initialized after a caller supplied its own classes
C10_Witness ==
    /\ s_pc = "ready"
    /\ init_args.node_class = "MyNode"
    /\ init_args.exec_conn_class = "MyExecConnection"
    /\ init_args.data_conn_item_class = None
    /\ rc_seen["node base"] = "MyNode"

(***************************************************************************)
(* Properties of Session._build_flow_view (checked under SpecSession and   *)
(* FairSpecBuild, one calling thread)                                      *)
(***************************************************************************)
BuiltFor(script, view) == view \in owner_wrote /\ view.script = script

\* C4: _build_flow_view resets tmp_data to None before it emits
\* build_flow_view_request, and it reads tmp_data, stores flow_views[script],
\* emits script_flow_view_created and returns only after the owning thread
\* has written the view of that request, which is the view stored and returned.
C4_HandOff ==
    /\ \A t \in Callers : call[t].pc = "emit" => tmp_data = NoneView
    /\ \A t \in Callers : call[t].pc = "read" =>
           BuiltFor(call[t].script, tmp_data)
    /\ \A t \in Callers : call[t].pc = "store" =>
           BuiltFor(call[t].script, call[t].flow_view)
    /\ \A s \in DOMAIN flow_views : BuiltFor(s, flow_views[s])
    /\ \A e \in emitted : BuiltFor(e.script, e.view)
    /\ \A r \in returned : BuiltFor(r.script, r.view) /\ flow_views[r.script] = r.view

\* a second script's view handed over by the owning thread
C4_Witness ==
    /\ threaded
    /\ [script |-> 2, view |-> [script |-> 2]] \in returned
    /\ flow_views[1] = [script |-> 1]

Creating(t) ==
    call[t].op \in {"create_script", "create_func_script"} /\ call[t].pc # "idle"

\* C5: when the owning thread handles each request, every create_script /
\* create_func_script call returns; while tmp_data is None the polling thread
\* takes no step of its own: nothing is stored, emitted or returned.
C5_NoTimeout ==
    /\ \A t \in Callers : Creating(t) ~> (call[t].pc = "idle")
    /\ [][\A t \in Callers :
             (call[t].pc = "poll" /\ tmp_data = NoneView) =>
                 /\ call'[t] = call[t]
                 /\ flow_views' = flow_views
                 /\ emitted' = emitted
                 /\ returned' = returned]_vars

\* a caller blocked in the polling loop, its request still queued
C5_Witness ==
    \E t \in Callers :
        /\ call[t].pc = "poll"
        /\ tmp_data = NoneView
        /\ gui_queue # <<>>

\* C16: once the create_script / create_func_script / rename_script /
\* delete_script calls made so far have returned, every script in the
\* session has a flow_views entry, and it is the non-None view built for that
\* script; so serialize never fails to find a view.
C16_EveryScriptHasView ==
    /\ (\A t \in Callers : ~Creating(t)) =>
           \A s \in Created : InSession(s) =>
               /\ s \in DOMAIN flow_views
               /\ flow_views[s] # NoneView
               /\ BuiltFor(s, flow_views[s])
    /\ \A t \in Callers : ~call[t].raised

\* two scripts were created and the first deleted; serialize then found the
\* view of the remaining one
C16_Witness ==
    /\ Len(script_info) = 2
    /\ ~InSession(1) /\ InSession(2)
    /\ 2 \in DOMAIN flow_views
    /\ flow_views[2] = [script |-> 2]
    /\ ser_result.done
    /\ threaded

\* C17: when two threads call create_script / create_func_script on one
\* Session concurrently, each call stores in flow_views and returns the view
\* the owning thread built for its own script; no call takes the other
\* call's view out of tmp_data, and no reset of tmp_data to None erases a
\* result the other call has not read yet.
C17_EachCallOwnView ==
    /\ [](\A t \in Threads : call[t].pc = "store" =>
              BuiltFor(call[t].script, call[t].flow_view))
    /\ [](\A s \in DOMAIN flow_views : BuiltFor(s, flow_views[s]))
    /\ [](\A r \in returned : BuiltFor(r.script, r.view))
    /\ [][\A t \in Threads :
             (call[t].pc \in {"poll", "read"}
                  /\ BuiltFor(call[t].script, tmp_data)) =>
                 tmp_data' # NoneView]_vars

(***************************************************************************)
(* Properties of Session.serialize (checked under SpecSession)             *)
(***************************************************************************)
SerializedCfgs == ser_result.data_fs \o ser_result.data_s

UniqueTitles ==
    \A a, b \in 1..Len(SerializedCfgs) :
        SerializedCfgs[a].name = SerializedCfgs[b].name => a = b

\* every entry of out is what the view of the script titled like the config
\* at the same position wrote when handed that config
Completed(out, cfgs) ==
    /\ Len(out) = Len(cfgs)
    /\ \A k \in 1..Len(cfgs) :
          /\ out[k] # NoneData
          /\ out[k][2] = cfgs[k]
          /\ \E s \in Created :
                InSession(s) /\ script_info[s].title = cfgs[k].name
          /\ \A s \in Created :
                InSession(s) /\ script_info[s].title = cfgs[k].name
                    => out[k] = ViewData(flow_views[s], cfgs[k])

\* C9: serialize returns a mapping with exactly the keys 'function scripts'
\* and 'scripts'; with unique titles, each list has one entry per config of
\* the core serialization, in order, each the data written by the flow view
\* of the script with that title when handed that config.
C9_Serialize ==
    ser_result.done =>
        /\ DOMAIN ser_result.val = {"function scripts", "scripts"}
        /\ UniqueTitles =>
              /\ Completed(ser_result.val["function scripts"], ser_result.data_fs)
              /\ Completed(ser_result.val["scripts"], ser_result.data_s)

\* a threaded session serialized a function script and a script
C9_Witness ==
    /\ ser_result.done
    /\ threaded
    /\ UniqueTitles
    /\ Len(ser_result.val["function scripts"]) = 1
    /\ Len(ser_result.val["scripts"]) = 1

\* v is greater than the value counter c returned before, if it returned any
AboveLast(c, v) == \A k \in 1..Len(ctr_last[c]) : v > ctr_last[c][k]

\* C14: over any sequence of count() and set_count() calls, failed ones
\* included, no counter ever decreases and every value count() returns is
\* strictly greater than the one it returned before, hence than all earlier
\* ones; so no two objects constructed through Base.__init__ share a
\* GLOBAL_ID.
C14_CounterNeverDecreases ==
    /\ [][\A c \in Counters : ctr'[c] >= ctr[c]]_vars
    /\ [][ctr_op'.op = "count" => AboveLast(ctr_op'.c, ctr_op'.ret)]_vars
    /\ [][base_op'.op = "init" =>
             AboveLast("global_id_ctr", base_op'.GLOBAL_ID)]_vars
    /\ [](\A i \in 1..Len(GLOBAL_IDs), j \in 1..Len(GLOBAL_IDs) :
              i # j => GLOBAL_IDs[i] # GLOBAL_IDs[j])

\* two objects, then a direct count() on the global counter, then a
\* set_count that was refused
C14_Witness ==
    /\ Len(GLOBAL_IDs) >= 2
    /\ ctr_last["global_id_ctr"] # <<>>
    /\ \A i \in 1..Len(GLOBAL_IDs) : ctr_last["global_id_ctr"][1] > GLOBAL_IDs[i]
    /\ ctr_op.op = "set_count" /\ ctr_op.raised /\ ctr_op.c = "global_id_ctr"

\* C15: Base.__init__ always assigns GLOBAL_ID from the global counter; it
\* assigns ID from id_ctr exactly when id_ctr is not None and the object has
\* no ID attribute or its ID is None; an ID that is not None is left as it is
\* and the custom counter does not advance.
C15_BaseInit ==
    base_op.op = "init" =>
        /\ base_op.GLOBAL_ID = base_op.before["global_id_ctr"] + 1
        /\ base_op.after["global_id_ctr"] = base_op.GLOBAL_ID
        /\ IF base_op.id_ctr # None /\ base_op.pre.attr \in {"absent", "None"}
           THEN /\ base_op.ID = SetID(base_op.before["id_ctr"] + 1)
                /\ base_op.after["id_ctr"] = base_op.before["id_ctr"] + 1
           ELSE /\ base_op.ID = base_op.pre
                /\ base_op.after["id_ctr"] = base_op.before["id_ctr"]

\* an object of a class with a custom counter that came with its own ID
C15_Witness ==
    /\ base_op.op = "init"
    /\ base_op.id_ctr = "id_ctr"
    /\ base_op.pre = SetID(1)
    /\ base_op.ID = SetID(1)
    /\ base_op.before["id_ctr"] >= 0
    /\ base_op.after["id_ctr"] = base_op.before["id_ctr"]

(***************************************************************************)
(* Properties of the wrappers (checked under SpecWrappers)                 *)
(***************************************************************************)
Trace == w_call.trace

EmitsAt(k) == Trace[k].ev = "emit"

CoreReturnedBefore(k) == \E j \in 1..(k - 1) : Trace[j].ev = "return"

CoreRaised == \E k \in 1..Len(Trace) : Trace[k].ev = "raise"

\* C3 as stated: every wrapper method first calls the wrapped core method
\* and emits its signal only after that call has returned.
C3_CoreCallThenSignal ==
    w_call.method # "none" =>
        /\ Trace[1].ev = "call"
        /\ \A k \in 1..Len(Trace) : EmitsAt(k) => CoreReturnedBefore(k)

\* C3 amended: every wrapper method except DataConnection.activate first
\* calls the wrapped core method and emits its signal only after that call
\* has returned; DataConnection.activate emits activated first and calls the
\* core method after it.
C3_CoreCallThenSignalExceptActivate ==
    /\ w_call.method \notin {"none", "DataConnection.activate"} =>
          /\ Trace[1].ev = "call"
          /\ \A k \in 1..Len(Trace) : EmitsAt(k) => CoreReturnedBefore(k)
    /\ w_call.method = "DataConnection.activate" =>
          /\ Trace[1] = Ev("emit", "activated")
          /\ Trace[2] = Ev("call", "RC_DataConnection.activate")
          /\ \A k \in 2..Len(Trace) : ~EmitsAt(k)

\* a wrapper emitted its signal after two core calls returned
C3_Witness ==
    /\ w_call.method = "Flow.set_algorithm_mode"
    /\ Len(Trace) = 5
    /\ EmitsAt(5)
    /\ wcore.mode = "exec"

\* C6 as stated: when the core call raises, the error propagates to the
\* caller and the wrapper emits no signal for that call.
C6_RaiseNoSignal ==
    CoreRaised =>
        /\ w_call.raised
        /\ Trace[Len(Trace)].ev = "raise"
        /\ \A k \in 1..Len(Trace) : ~EmitsAt(k)

\* C6 amended: when the core call raises, the error propagates to the
\* caller; every wrapper except DataConnection.activate emits no signal for
\* that call, and DataConnection.activate has emitted activated before the
\* core call and emits nothing after it.
C6_RaiseNoSignalExceptActivate ==
    CoreRaised =>
        /\ w_call.raised
        /\ Trace[Len(Trace)].ev = "raise"
        /\ w_call.method # "DataConnection.activate" =>
              \A k \in 1..Len(Trace) : ~EmitsAt(k)
        /\ w_call.method = "DataConnection.activate" =>
              Trace = <<Ev("emit", "activated"),
                        Ev("call", "RC_DataConnection.activate"),
                        Ev("raise", "RC_DataConnection.activate")>>

\* the core refused to delete a variable it does not hold
C6_Witness ==
    /\ w_call.method = "VarsManager.delete_variable"
    /\ w_call.raised
    /\ "x" \notin DOMAIN wcore.variables

Emissions == {k \in 1..Len(Trace) : EmitsAt(k)}

\* C11: set_var returns the core's result; when that result is true it emits
\* var_val_changed exactly once, carrying the variable of that name and its
\* value after the set; when it is false it emits nothing and no variable
\* changes.
C11_SetVar ==
    /\ [](w_call.method = "VarsManager.set_var" /\ ~w_call.raised =>
            /\ w_call.ret = w_call.core_ret
            /\ w_call.core_ret = <<TRUE>> =>
                  /\ Cardinality(Emissions) = 1
                  /\ \A k \in Emissions : Trace[k].what = "var_val_changed"
                  /\ w_call.args[1] \in DOMAIN wcore.variables
                  /\ w_call.sig_args =
                        <<w_call.args[1], wcore.variables[w_call.args[1]]>>
                  /\ wcore.variables[w_call.args[1]] = w_call.args[2]
            /\ w_call.core_ret = <<FALSE>> =>
                  /\ Emissions = {}
                  /\ w_call.sig_args = <<>>)
    /\ [][(w_call'.method = "VarsManager.set_var" /\ w_call'.core_ret # <<TRUE>>)
             => wcore'.variables = wcore.variables]_vars

\* an existing variable was set to a new value
C11_Witness ==
    /\ w_call.method = "VarsManager.set_var"
    /\ w_call.ret = <<TRUE>>
    /\ w_call.sig_args = <<"x", 1>>

\* C13: check_connection_validity returns the core's validity result; it
\* emits connection_request_valid, carrying that result, exactly once when
\* emit is True and never when emit is False.
C13_CheckConnectionValidity ==
    (w_call.method = "Flow.check_connection_validity" /\ ~w_call.raised) =>
        /\ w_call.ret = w_call.core_ret
        /\ w_call.args[1] =>
              /\ Cardinality(Emissions) = 1
              /\ \A k \in Emissions : Trace[k].what = "connection_request_valid"
              /\ w_call.sig_args = w_call.core_ret
        /\ ~w_call.args[1] =>
              /\ Emissions = {}
              /\ w_call.sig_args = <<>>

\* an invalid connection request was checked with emit=True
C13_Witness ==
    /\ w_call.method = "Flow.check_connection_validity"
    /\ w_call.args = <<TRUE>>
    /\ w_call.ret = <<FALSE>>
    /\ w_call.sig_args = <<FALSE>>

(***************************************************************************)
(* Specifications                                                          *)
(***************************************************************************)
ShortenIdle == sh_in = [s |-> <<>>, max_chars |-> 0, line_break |-> FALSE]
                 /\ sh_out = [done |-> FALSE, val |-> <<>>]

InitShorten == ShortenInit /\ IDCtrInit /\ BaseNew /\ SessionNew /\ SessionAbsent /\ WCoreInit
NextShorten == ShortenCall /\ UNCHANGED <<ctrVars, initVars, sessVars, w_call, wcore>>
SpecShorten == InitShorten /\ [][NextShorten]_vars

InitIDCtr == ShortenIdle /\ IDCtrInit /\ BaseNew /\ SessionNew /\ SessionAbsent /\ WCoreInit
NextIDCtr ==
    \/ \E c \in Counters :
           count(c)
              /\ UNCHANGED <<baseVars, shVars, initVars, sessVars, w_call, wcore>>
    \/ \E c \in Counters, cnt \in -2..MaxCount :
           set_count(c, cnt)
              /\ UNCHANGED <<baseVars, shVars, initVars, sessVars, w_call, wcore>>
SpecIDCtr == InitIDCtr /\ [][NextIDCtr]_vars

\* objects are constructed, and the counters are called directly, in any order
InitBase == InitIDCtr
NextBase ==
    \/ \E c \in Counters :
           count(c) /\ CountReturned(c)
              /\ UNCHANGED <<shVars, initVars, sessVars, w_call, wcore>>
    \/ \E c \in Counters, cnt \in -2..MaxCount :
           set_count(c, cnt) /\ SetCountReturned
              /\ UNCHANGED <<shVars, initVars, sessVars, w_call, wcore>>
    \/ \E id_ctr \in IdCtrs, pre_id \in PreIDs :
           Base__init__(id_ctr, pre_id)
              /\ UNCHANGED <<shVars, initVars, sessVars, w_call, wcore>>
SpecBase == InitBase /\ [][NextBase]_vars

InitSessionInit == ShortenIdle /\ IDCtrInit /\ BaseNew /\ SessionNew /\ SessionAbsent /\ WCoreInit
NextSessionInit ==
    \/ \E a \in ClassArgs :
           SessionInitRegister(a) /\ UNCHANGED <<shVars, ctrVars, sessVars, w_call, wcore>>
    \/ SessionInitCore /\ UNCHANGED <<shVars, ctrVars, sessVars, w_call, wcore>>
SpecSessionInit == InitSessionInit /\ [][NextSessionInit]_vars

other == <<shVars, ctrVars, initVars, wcore>>

InitSession == ShortenIdle /\ IDCtrInit /\ BaseNew /\ SessionReady /\ WCoreInit
NextSession ==
    \/ \E t \in Callers, kind \in {"create_script", "create_func_script"},
          title \in Titles, config \in Configs :
           CreateScript(t, kind, title, config) /\ UNCHANGED other
    \/ \E t \in Callers : BuildReset(t) /\ UNCHANGED other
    \/ \E t \in Callers : BuildEmit(t) /\ UNCHANGED other
    \/ \E t \in Callers : BuildPoll(t) /\ UNCHANGED other
    \/ \E t \in Callers : BuildRead(t) /\ UNCHANGED other
    \/ \E t \in Callers : BuildStore(t) /\ UNCHANGED other
    \/ OwnerInitFlowView /\ UNCHANGED other
    \/ \E t \in Callers, s \in 1..MaxScripts, title \in Titles, ok \in BOOLEAN :
           rename_script(t, s, title, ok) /\ UNCHANGED other
    \/ \E t \in Callers, s \in 1..MaxScripts, ok \in BOOLEAN :
           delete_script(t, s, ok) /\ UNCHANGED other
    \/ \E t \in Callers : SerializeBegin(t) /\ UNCHANGED other
    \/ \E t \in Callers : SerializeRequest(t) /\ UNCHANGED other
    \/ \E t \in Callers : SerializeCollect(t) /\ UNCHANGED other
    \/ \E t \in Callers : SerializeScripts(t) /\ UNCHANGED other
    \/ \E t \in Callers : SerializeReturn(t) /\ UNCHANGED other
    \/ OwnerGenerateConfigData /\ UNCHANGED other
SpecSession == InitSession /\ [][NextSession]_vars

\* a session of the GUI thread in which create_script("A") has returned
SessionWithScript ==
    /\ s_pc = "ready"
    /\ init_args = DefaultArgs
    /\ CLASSES = Register(EmptyRegistry, init_args)
    /\ rc_seen = CLASSES
    /\ threaded = FALSE
    /\ scripts = <<1>>
    /\ function_scripts = <<>>
    /\ script_info = <<[title |-> "A"]>>
    /\ flow_views = <<[script |-> 1]>>
    /\ tmp_data = [script |-> 1]
    /\ view_tmp = [s \in 1..MaxScripts |-> NoneData]
    /\ gui_queue = <<>>
    /\ owner_wrote = {[script |-> 1]}
    /\ call = [t \in Callers |-> IdleCall]
    /\ emitted = {[script |-> 1, view |-> [script |-> 1]]}
    /\ returned = {[script |-> 1, view |-> [script |-> 1]]}
    /\ ser_result = NoResult
    /\ w_call = NoWCall

InitWrappers == ShortenIdle /\ IDCtrInit /\ BaseNew /\ SessionWithScript /\ WCoreInit
NextWrappers ==
    \/ \E t \in Callers, s \in 1..MaxScripts, title \in Titles, ok \in BOOLEAN :
           rename_script(t, s, title, ok) /\ UNCHANGED other
    \/ \E t \in Callers, s \in 1..MaxScripts, ok \in BOOLEAN :
           delete_script(t, s, ok) /\ UNCHANGED other
    \/ \E msg \in Messages, ok \in BOOLEAN : Log_write(msg, ok)
    \/ \E ok \in BOOLEAN : Log_clear(ok)
    \/ \E ok \in BOOLEAN : Log_disable(ok)
    \/ \E ok \in BOOLEAN : Log_enable(ok)
    \/ \E title \in LogTitles, ok \in BOOLEAN : Logger_new_log(title, ok)
    \/ \E name \in VarNames, val \in VarVals, ok \in BOOLEAN :
           VarsManager_create_new_var(name, val, ok)
    \/ \E name \in VarNames, ok \in BOOLEAN :
           VarsManager_delete_variable(name, ok)
    \/ \E name \in VarNames, val \in VarVals, ok \in BOOLEAN :
           VarsManager_set_var(name, val, ok)
    \/ \E node \in Nodes, ok \in BOOLEAN : Flow_add_node(node, ok)
    \/ \E node \in Nodes, ok \in BOOLEAN : Flow_remove_node(node, ok)
    \/ \E c \in Connections, ok \in BOOLEAN : Flow_add_connection(c, ok)
    \/ \E c \in Connections, ok \in BOOLEAN : Flow_remove_connection(c, ok)
    \/ \E valid \in BOOLEAN, emit \in BOOLEAN, ok \in BOOLEAN :
           Flow_check_connection_validity(valid, emit, ok)
    \/ \E nodes \in SUBSET Nodes, ok \in BOOLEAN :
           Flow_create_nodes_from_config(nodes, ok)
    \/ \E conns \in SUBSET Connections, ok \in BOOLEAN :
           Flow_connect_nodes_from_config(conns, ok)
    \/ \E mode \in Modes, ok \in BOOLEAN : Flow_set_algorithm_mode(mode, ok)
    \/ \E c \in Connections, ok \in BOOLEAN : DataConnection_activate(c, ok)
SpecWrappers == InitWrappers /\ [][NextWrappers]_vars

\* two threads create scripts on the same Session at the same time
InitTwoThreads == ShortenIdle /\ IDCtrInit /\ BaseNew /\ SessionReadyTwoThreads /\ WCoreInit
NextTwoThreads ==
    \/ \E t \in Threads, kind \in {"create_script", "create_func_script"},
          title \in Titles, config \in Configs :
           CreateScript(t, kind, title, config) /\ UNCHANGED other
    \/ \E t \in Threads : BuildReset(t) /\ UNCHANGED other
    \/ \E t \in Threads : BuildEmit(t) /\ UNCHANGED other
    \/ \E t \in Threads : BuildPoll(t) /\ UNCHANGED other
    \/ \E t \in Threads : BuildRead(t) /\ UNCHANGED other
    \/ \E t \in Threads : BuildStore(t) /\ UNCHANGED other
    \/ OwnerInitFlowView /\ UNCHANGED other
SpecTwoThreads == InitTwoThreads /\ [][NextTwoThreads]_vars

\* a calling thread that is inside _build_flow_view keeps running
BuildStep(t) ==
    (BuildReset(t) \/ BuildEmit(t) \/ BuildPoll(t) \/ BuildRead(t) \/ BuildStore(t))
        /\ UNCHANGED other

NextBuild ==
    \/ \E t \in Callers, kind \in {"create_script", "create_func_script"},
          title \in Titles, config \in Configs :
           CreateScript(t, kind, title, config) /\ UNCHANGED other
    \/ \E t \in Callers : BuildStep(t)
    \/ OwnerInitFlowView /\ UNCHANGED other
    \/ \E t \in Callers, s \in 1..MaxScripts, title \in Titles, ok \in BOOLEAN :
           rename_script(t, s, title, ok) /\ UNCHANGED other
    \/ \E t \in Callers, s \in 1..MaxScripts, ok \in BOOLEAN :
           delete_script(t, s, ok) /\ UNCHANGED other

\* the owning thread's event loop runs every queued slot; a thread inside
\* _build_flow_view is scheduled
FairSpecBuild ==
    /\ InitSession
    /\ [][NextBuild]_vars
    /\ WF_vars(OwnerInitFlowView /\ UNCHANGED other)
    /\ \A t \in Callers : WF_vars(BuildStep(t))

====
